---- MODULE Spec2Model ----
(***************************************************************************)
(* Genotype quad-tree (QuadTree, BlobGeno), cursor-driven BlobBuilder and  *)
(* GenoBlobBuilder of EvoSim.                                              *)
(*                                                                         *)
(* f32 values are integers counted in ticks of 2^-19: every f32 in         *)
(* [16, 32) is a whole number of ticks, and larger magnitudes are rounded  *)
(* to the coarser grid of their binade exactly as IEEE-754 single          *)
(* precision does (round to nearest, ties to even).                        *)
(***************************************************************************)
EXTENDS Integers, Sequences, FiniteSets, TLC

VARIABLES
    nodes,            \* BlobGeno.vec_tree.nodes
    occupied_region,  \* new_rand: Vec<[f32;4]> threaded through the recursion
    gstack,           \* new_rand: call stack of the recursive fn build
    gpc,              \* new_rand / is_valid: position of the caller
    spawned,          \* number of candidates for which gen_bool returned true
    valid,            \* result of the last is_valid() call
    blocks,           \* BlobBuilder.blocks
    current_pos,      \* BlobBuilder.current_pos
    blob,             \* BlobBuilder.blob
    next_entity,      \* Commands: next Entity id handed out by spawn
    group,            \* engine: entity -> blob entity it was pushed under
    joints,           \* engine: ImpulseJoints spawned by bind_joint
    bstack,           \* GenoBlobBuilder::build: call stack of build_node
    bpc,              \* GenoBlobBuilder::build: position of the caller
    builds,           \* number of build calls started
    nn_count,         \* length of the controller list (nnvec)
    last,             \* history: the last BlobBuilder call made by a client
                      \* of the builder, and the builder as that call found it
    max_depth,        \* QuadTree.max_depth
    tlast             \* history: the last QuadTree / BlobGeno call made by a
                      \* client, the tree as it found it, and what it returned

gvars == <<nodes, occupied_region, gstack, gpc, spawned, valid>>
avars == <<blocks, current_pos, blob, next_entity, group, joints>>
bvars == <<bstack, bpc, builds, nn_count>>
vars == <<nodes, occupied_region, gstack, gpc, spawned, valid,
          blocks, current_pos, blob, next_entity, group, joints,
          bstack, bpc, builds, nn_count, last, max_depth, tlast>>

----------------------------------------------------------------------------
(* Option<T>                                                               *)
None == <<>>
Some(x) == <<x>>
is_some(o) == o # <<>>
is_none(o) == o = <<>>
unwrap(o) == o[1]

----------------------------------------------------------------------------
(* f32 arithmetic                                                          *)
One == 2^19

Abs(x) == IF x < 0 THEN -x ELSE x

Quantum(m) ==
    IF m < 2^24 THEN 1
    ELSE IF m < 2^25 THEN 2
    ELSE IF m < 2^26 THEN 4
    ELSE IF m < 2^27 THEN 8
    ELSE IF m < 2^28 THEN 16
    ELSE 32

RoundF32(x) ==
    LET m == Abs(x)
        q == Quantum(m)
        lo == (m \div q) * q
        r == m - lo
        up == IF 2 * r > q \/ (2 * r = q /\ (lo \div q) % 2 = 1)
              THEN lo + q ELSE lo
    IN IF x < 0 THEN -up ELSE up

FAdd(a, b) == RoundF32(a + b)
FSub(a, b) == RoundF32(a - b)

----------------------------------------------------------------------------
(* consts.rs                                                               *)
GENO_MAX_DEPTH == 2
DEFAULT_BLOCK_SIZE == <<50 * One, 50 * One>>
RAND_SIZE_SCALER == <<[num |-> 1, den |-> 2], [num |-> 2, den |-> 1]>>
POSITION_EPSILON == 64

Scale(s, x) == (s.num * x) \div s.den

----------------------------------------------------------------------------
(* Bounds of the model                                                     *)
MaxSpawn == 3
MaxBlocks == 4
MaxEntities == 9
MaxBuilds == 2
MaxLimbs == 3

\* f32 values the gen_range calls for size[0] (axis 1) and size[1] (axis 2)
\* may return, before restriction to the range of the call
SizeSamples(axis) ==
    IF axis = 1 THEN {25 * One, 30 * One + 5} ELSE {25 * One, 40 * One + 2}

----------------------------------------------------------------------------
(* GenericGenoNode / GenoNode                                              *)
ParentNode == [tag |-> "Parent"]
Child(size, center, nn_id) ==
    [tag |-> "Child", size |-> size, center |-> center, nn_id |-> nn_id]

GenoNode_default == Child(DEFAULT_BLOCK_SIZE, <<0, 0>>, None)

IsParent(slot) == is_some(slot) /\ unwrap(slot).tag = "Parent"
IsChild(slot) == is_some(slot) /\ unwrap(slot).tag = "Child"

----------------------------------------------------------------------------
(* QuadTree                                                                *)
QuadTree_capacity(md) == 4^md + 1

QuadTree_new(md) ==
    [i \in 0 .. QuadTree_capacity(md) - 1 |-> None]

len(tree) == Cardinality(DOMAIN tree)

parent_NoOffset(index) == IF index = 0 THEN None ELSE Some(index \div 4)

parent(index) == IF index = 0 THEN None ELSE Some((index - 1) \div 4)

children(index) ==
    LET base == 4 * index IN <<base + 1, base + 2, base + 3, base + 4>>

\* tree.nodes.get(i) flattened: the slot, or None when i is out of range
get(tree, i) == IF i \in DOMAIN tree THEN tree[i] ELSE None

InRange(tree, i) == i \in DOMAIN tree

----------------------------------------------------------------------------
(* BlobGeno::new_rand                                                      *)

\* [x_min, x_max, y_min, y_max] of a box given by center and half-extent
Box(center, size) ==
    <<FSub(center[1], size[1]), FAdd(center[1], size[1]),
      FSub(center[2], size[2]), FAdd(center[2], size[2])>>

\* the inclusive test of new_rand's is_overlapped against one region
GenRegionOverlap_Never(b, region) == FALSE

GenRegionOverlap_Strict(b, region) ==
    LET x_overlap == b[1] < region[2] /\ b[2] > region[1]
        y_overlap == b[3] < region[4] /\ b[4] > region[3]
    IN x_overlap /\ y_overlap

GenRegionOverlap(b, region) ==
    LET x_overlap == b[1] <= region[2] /\ b[2] >= region[1]
        y_overlap == b[3] <= region[4] /\ b[4] >= region[3]
    IN x_overlap /\ y_overlap

\* new_rand's is_overlapped: the answer and the list it leaves behind
new_rand_is_overlapped(center, size, occ) ==
    LET b == Box(center, size)
    IN [hit |-> \E i \in DOMAIN occ : GenRegionOverlap(b, occ[i]),
        occ |-> Append(occ, b)]

\* rng.gen_range(lo..hi): the values it may return; it panics when lo >= hi
RangeEmpty(lo, hi) == ~(lo < hi)
GenRange(axis, lo, hi) == {v \in SizeSamples(axis) : lo <= v /\ v < hi}

SizeLo(axis) == Scale(RAND_SIZE_SCALER[1], DEFAULT_BLOCK_SIZE[axis])
SizeHi == Scale(RAND_SIZE_SCALER[2], DEFAULT_BLOCK_SIZE[1])

\* rand_nodes: one of the gen_range calls of this direction has an empty range
RandSizePanics(parent_size, direction) ==
    \/ RangeEmpty(SizeLo(1), parent_size[1])
    \/ RangeEmpty(SizeLo(2), SizeHi)
    \/ /\ direction \in {2, 3}
       /\ \/ RangeEmpty(SizeLo(1), SizeHi)
          \/ RangeEmpty(SizeLo(2), parent_size[2])

\* rand_nodes: the sizes the direction's last gen_range calls may return
RandSizes(parent_size, direction) ==
    IF direction \in {2, 3}
    THEN GenRange(1, SizeLo(1), SizeHi) \X GenRange(2, SizeLo(2), parent_size[2])
    ELSE GenRange(1, SizeLo(1), parent_size[1]) \X GenRange(2, SizeLo(2), SizeHi)

\* rand_nodes: the candidate's center, flush against the parent's edge
RandCenter(parent_center, parent_size, size, direction) ==
    IF direction = 1
    THEN <<parent_center[1],
           FSub(FSub(parent_center[2], parent_size[2]), size[2])>>
    ELSE IF direction = 2
    THEN <<FSub(FSub(parent_center[1], parent_size[1]), size[1]),
           parent_center[2]>>
    ELSE IF direction = 3
    THEN <<FAdd(FAdd(parent_center[1], parent_size[1]), size[1]),
           parent_center[2]>>
    ELSE <<parent_center[1],
           FAdd(FAdd(parent_center[2], parent_size[2]), size[2])>>

\* a call build(tree, c, ..) of new_rand's recursive fn: the frame it runs in,
\* or no frame when it returns at once
GenEnter(tree, c) ==
    IF InRange(tree, children(c)[4]) /\ IsChild(tree[c])
    THEN <<[index |-> c, k |-> 0, parent_idx |-> -1]>>
    ELSE <<>>

GenTop == gstack[Len(gstack)]
GenSetTop(f) == [gstack EXCEPT ![Len(gstack)] = f]

GenUnchanged == UNCHANGED <<valid, blocks, current_pos, blob, next_entity,
                            group, joints, bstack, bpc, builds, nn_count,
                            last, max_depth, tlast>>

\* rand_nodes, gen_bool(RAND_NODE_NOT_NONE) = false
RandNodesNone ==
    /\ gpc = "new_rand" /\ gstack # <<>> /\ GenTop.k \in 0 .. 3
    /\ LET f == GenTop
           child == children(f.index)[f.k + 1]
       IN /\ nodes' = [nodes EXCEPT ![child] = None]
          /\ gstack' = GenSetTop([f EXCEPT !.k = f.k + 1])
    /\ UNCHANGED <<occupied_region, gpc, spawned>>
    /\ GenUnchanged

\* rand_nodes, gen_bool true and a gen_range call on an empty range
RandNodesPanic ==
    /\ gpc = "new_rand" /\ gstack # <<>> /\ GenTop.k \in 0 .. 3
    /\ spawned < MaxSpawn
    /\ RandSizePanics(unwrap(nodes[GenTop.index]).size, GenTop.k)
    /\ gpc' = "panicked"
    /\ spawned' = spawned + 1
    /\ UNCHANGED <<nodes, occupied_region, gstack>>
    /\ GenUnchanged

\* rand_nodes, gen_bool true: sample, place, test, accept or discard
RandNodesSome ==
    /\ gpc = "new_rand" /\ gstack # <<>> /\ GenTop.k \in 0 .. 3
    /\ spawned < MaxSpawn
    /\ LET f == GenTop
           node == unwrap(nodes[f.index])
           child == children(f.index)[f.k + 1]
       IN /\ ~RandSizePanics(node.size, f.k)
          /\ \E sz \in RandSizes(node.size, f.k) :
                LET size == <<sz[1], sz[2]>>
                    center == RandCenter(node.center, node.size, size, f.k)
                    r == new_rand_is_overlapped(center, size, occupied_region)
                IN /\ occupied_region' = r.occ
                   /\ nodes' = [nodes EXCEPT ![child] =
                                   IF r.hit THEN None
                                   ELSE Some(Child(size, center, None))]
          /\ gstack' = GenSetTop([f EXCEPT !.k = f.k + 1])
    /\ spawned' = spawned + 1
    /\ UNCHANGED gpc
    /\ GenUnchanged

SetParentIndicator_Noop(tree, parent_idx) == tree

\* `tree.nodes[parent_idx] = Some(GenericGenoNode::Parent)`
SetParentIndicator(tree, parent_idx) ==
    [tree EXCEPT ![parent_idx] = Some(ParentNode)]

\* the slot that `children.choose(&mut rng)` picks becomes the parent indicator
ChooseParent ==
    /\ gpc = "new_rand" /\ gstack # <<>> /\ GenTop.k = 4
    /\ \E p \in 1 .. 4 :
          LET parent_idx == children(GenTop.index)[p]
          IN /\ nodes' = SetParentIndicator(nodes, parent_idx)
             /\ gstack' = GenSetTop([GenTop EXCEPT !.k = 5,
                                                   !.parent_idx = parent_idx])
    /\ UNCHANGED <<occupied_region, gpc, spawned>>
    /\ GenUnchanged

\* the children, from position j on, whose call build(tree, i, ..) does not
\* return at once: `for &i in children.iter() { if i != parent_idx { .. } }`
GenPending(tree, f, j) ==
    {p \in j .. 4 : /\ children(f.index)[p] # f.parent_idx
                    /\ GenEnter(tree, children(f.index)[p]) # <<>>}

Min(S) == CHOOSE x \in S : \A y \in S : x <= y

\* the loop reaches the next child whose call runs the body of build
GenRecurse ==
    /\ gpc = "new_rand" /\ gstack # <<>> /\ GenTop.k \in 5 .. 8
    /\ GenPending(nodes, GenTop, GenTop.k - 4) # {}
    /\ LET f == GenTop
           p == Min(GenPending(nodes, f, f.k - 4))
       IN gstack' = GenSetTop([f EXCEPT !.k = p + 5])
                       \o GenEnter(nodes, children(f.index)[p])
    /\ UNCHANGED <<nodes, occupied_region, gpc, spawned>>
    /\ GenUnchanged

\* the loop is over and the recursive fn returns; the outermost return ends
\* new_rand
GenReturn ==
    /\ gpc = "new_rand" /\ gstack # <<>> /\ GenTop.k \in 5 .. 9
    /\ GenPending(nodes, GenTop, GenTop.k - 4) = {}
    /\ gstack' = SubSeq(gstack, 1, Len(gstack) - 1)
    /\ gpc' = IF Len(gstack) = 1 THEN "returned" ELSE gpc
    /\ UNCHANGED <<nodes, occupied_region, spawned>>
    /\ GenUnchanged

----------------------------------------------------------------------------
(* BlobGeno::is_valid                                                      *)

ValidRegionOverlap_NoEpsilon(b, region) ==
    b[1] < region[2] /\ b[2] > region[1] /\ b[3] < region[4] /\ b[4] > region[3]

ValidRegionOverlap(b, region) ==
    LET x_overlap == b[1] < FSub(region[2], POSITION_EPSILON)
                     /\ FSub(b[2], POSITION_EPSILON) > region[1]
        y_overlap == b[3] < FSub(region[4], POSITION_EPSILON)
                     /\ FSub(b[4], POSITION_EPSILON) > region[3]
    IN x_overlap /\ y_overlap

is_valid_is_overlapped(center, size, occ) ==
    LET b == Box(center, size)
    IN [hit |-> \E i \in DOMAIN occ : ValidRegionOverlap(b, occ[i]),
        occ |-> Append(occ, b)]

RECURSIVE check(_, _, _)
RECURSIVE check_all(_, _, _, _)

\* the fn check of is_valid: its result and the occupancy list it leaves
check(tree, occ, idx) ==
    IF InRange(tree, idx) /\ IsChild(tree[idx])
    THEN LET cur == unwrap(tree[idx])
             r == is_valid_is_overlapped(cur.center, cur.size, occ)
         IN IF ~r.hit
            THEN check_all(tree, r.occ, children(idx), 1)
            ELSE [ok |-> FALSE, occ |-> r.occ]
    ELSE [ok |-> TRUE, occ |-> occ]

\* `children.iter().all(..)`: in order, stopping at the first false
check_all(tree, occ, ch, k) ==
    IF k > 4 THEN [ok |-> TRUE, occ |-> occ]
    ELSE LET r == check(tree, occ, ch[k])
         IN IF r.ok THEN check_all(tree, r.occ, ch, k + 1) ELSE r

is_valid(tree) == check(tree, <<>>, 0).ok

\* the regression test's `assert!(geno.is_valid())` on new_rand's result
IsValidCall ==
    /\ gpc = "returned"
    /\ valid' = Some(is_valid(nodes))
    /\ gpc' = "checked"
    /\ UNCHANGED <<nodes, occupied_region, gstack, spawned>>
    /\ UNCHANGED <<blocks, current_pos, blob, next_entity, group, joints,
                   bstack, bpc, builds, nn_count, last, max_depth, tlast>>

----------------------------------------------------------------------------
(* Specification of generation: new_rand, then is_valid                    *)

\* BlobGeno::default() with the root node set, entering build(tree, 0, ..)
new_rand_tree ==
    [QuadTree_new(GENO_MAX_DEPTH) EXCEPT ![0] = Some(GenoNode_default)]

\* BlobBuilder::from_commands: the blob entity is the first spawned entity
InitAssembler ==
    /\ blocks = <<>>
    /\ current_pos = None
    /\ blob = 0
    /\ next_entity = 1
    /\ group = {}
    /\ joints = {}

InitIdleBuild ==
    /\ bstack = <<>>
    /\ bpc = "idle"
    /\ builds = 0
    /\ nn_count = 0
    /\ last = [op |-> "from_commands", pre |-> <<>>]
    /\ max_depth = GENO_MAX_DEPTH
    /\ tlast = [op |-> "new", index |-> 0, pre |-> <<>>, panic |-> FALSE, ret |-> <<>>]

InitGen ==
    /\ nodes = new_rand_tree
    /\ occupied_region = <<>>
    /\ gstack = GenEnter(new_rand_tree, 0)
    /\ gpc = "new_rand"
    /\ spawned = 0
    /\ valid = None
    /\ InitAssembler
    /\ InitIdleBuild

NextGen ==
    \/ RandNodesNone
    \/ RandNodesPanic
    \/ RandNodesSome
    \/ ChooseParent
    \/ GenRecurse
    \/ GenReturn
    \/ IsValidCall

SpecGen == InitGen /\ [][NextGen]_vars

----------------------------------------------------------------------------
(* BlobBuilder                                                             *)

\* the builder as a value: the fields of BlobBuilder and what its Commands
\* has spawned so far
Builder ==
    [blocks |-> blocks, current_pos |-> current_pos, blob |-> blob,
     next_entity |-> next_entity, group |-> group, joints |-> joints]

SetBuilder(b) ==
    /\ blocks' = b.blocks
    /\ current_pos' = b.current_pos
    /\ blob' = b.blob
    /\ next_entity' = b.next_entity
    /\ group' = b.group
    /\ joints' = b.joints

\* self.blocks[pos]
BlockAt(b, pos) == b.blocks[pos + 1]

BlobBlock(id, top_, bottom_, left_, right_, vec_index, size, translation) ==
    [id |-> id, top |-> top_, bottom |-> bottom_, left |-> left_,
     right |-> right_, vec_index |-> vec_index, size |-> size,
     translation |-> translation]

clean_KeepBlocks(b) ==
    [b EXCEPT !.blob = b.next_entity, !.next_entity = b.next_entity + 1,
              !.current_pos = None]

clean(b) ==
    [b EXCEPT !.blob = b.next_entity, !.next_entity = b.next_entity + 1,
              !.blocks = <<>>, !.current_pos = None]

left_ReadsRight(b) ==
    IF is_some(b.current_pos)
       /\ is_some(BlockAt(b, unwrap(b.current_pos)).right)
    THEN [b EXCEPT !.current_pos =
                       Some(unwrap(BlockAt(b, unwrap(b.current_pos)).right))]
    ELSE b

left(b) ==
    IF is_some(b.current_pos)
       /\ is_some(BlockAt(b, unwrap(b.current_pos)).left)
    THEN [b EXCEPT !.current_pos =
                       Some(unwrap(BlockAt(b, unwrap(b.current_pos)).left))]
    ELSE b

right(b) ==
    IF is_some(b.current_pos)
       /\ is_some(BlockAt(b, unwrap(b.current_pos)).right)
    THEN [b EXCEPT !.current_pos =
                       Some(unwrap(BlockAt(b, unwrap(b.current_pos)).right))]
    ELSE b

top(b) ==
    IF is_some(b.current_pos)
       /\ is_some(BlockAt(b, unwrap(b.current_pos)).top)
    THEN [b EXCEPT !.current_pos =
                       Some(unwrap(BlockAt(b, unwrap(b.current_pos)).top))]
    ELSE b

bottom(b) ==
    IF is_some(b.current_pos)
       /\ is_some(BlockAt(b, unwrap(b.current_pos)).bottom)
    THEN [b EXCEPT !.current_pos =
                       Some(unwrap(BlockAt(b, unwrap(b.current_pos)).bottom))]
    ELSE b

reset_Noop(b) == b

reset(b) ==
    IF is_some(b.current_pos) THEN [b EXCEPT !.current_pos = Some(0)] ELSE b

\* PhysiBlockBundle::from_xy_dx_dy(x, y, dx, dy) as the builder reads it back:
\* `custom_size.unwrap() / 2.0` and `transform.translation.truncate()`
Bundle(x, y, dx, dy) == [size |-> <<dx, dy>>, translation |-> <<x, y>>]

create_first(b, phy_block_bundle) ==
    LET id == b.next_entity
        block == BlobBlock(id, None, None, None, None, 0,
                           phy_block_bundle.size,
                           phy_block_bundle.translation)
    IN [b EXCEPT !.next_entity = id + 1,
                 !.group = b.group \cup {<<block.id, b.blob>>},
                 !.blocks = Append(b.blocks, block),
                 !.current_pos = Some(0)]

\* bind_joint: the joint entity is spawned under the child
bind_joint(b, parent_id, child_id) ==
    [b EXCEPT !.next_entity = b.next_entity + 1,
              !.joints = b.joints \cup {[parent |-> parent_id,
                                         child |-> child_id]}]

\* the common tail of add_to_*: link the cursor block, move the cursor, bind
\* the joint, group the new block and push it
Attach(b, pos, slot, new_block) ==
    LET linked == [b EXCEPT !.blocks[pos + 1][slot] = Some(new_block.vec_index),
                            !.current_pos = Some(new_block.vec_index),
                            !.next_entity = new_block.id + 1]
        jointed == bind_joint(linked, BlockAt(b, pos).id, new_block.id)
    IN [jointed EXCEPT !.group = jointed.group \cup {<<new_block.id, b.blob>>},
                       !.blocks = Append(jointed.blocks, new_block)]

add_to_left_NoBackLink(b, dx, dy) ==
    IF is_none(b.current_pos) THEN b
    ELSE LET pos == unwrap(b.current_pos)
             block == BlockAt(b, pos)
         IN IF is_some(block.left) THEN b
            ELSE LET spawn_x == FSub(FSub(block.translation[1], block.size[1]), dx)
                     spawn_y == block.translation[2]
                     bundle == Bundle(spawn_x, spawn_y, dx, dy)
                     new_block == BlobBlock(b.next_entity, None, None, None,
                                            None, Len(b.blocks),
                                            bundle.size, bundle.translation)
                 IN Attach(b, pos, "left", new_block)

add_to_left(b, dx, dy) ==
    IF is_none(b.current_pos) THEN b
    ELSE LET pos == unwrap(b.current_pos)
             block == BlockAt(b, pos)
         IN IF is_some(block.left) THEN b
            ELSE LET spawn_x == FSub(FSub(block.translation[1], block.size[1]), dx)
                     spawn_y == block.translation[2]
                     bundle == Bundle(spawn_x, spawn_y, dx, dy)
                     new_block == BlobBlock(b.next_entity, None, None, None,
                                            Some(pos), Len(b.blocks),
                                            bundle.size, bundle.translation)
                 IN Attach(b, pos, "left", new_block)

add_to_right_BackLinkRight(b, dx, dy) ==
    IF is_none(b.current_pos) THEN b
    ELSE LET pos == unwrap(b.current_pos)
             block == BlockAt(b, pos)
         IN IF is_some(block.right) THEN b
            ELSE LET spawn_x == FAdd(FAdd(block.translation[1], block.size[1]), dx)
                     spawn_y == block.translation[2]
                     bundle == Bundle(spawn_x, spawn_y, dx, dy)
                     new_block == BlobBlock(b.next_entity, None, None,
                                            None, Some(pos), Len(b.blocks),
                                            bundle.size, bundle.translation)
                 IN Attach(b, pos, "right", new_block)

add_to_right(b, dx, dy) ==
    IF is_none(b.current_pos) THEN b
    ELSE LET pos == unwrap(b.current_pos)
             block == BlockAt(b, pos)
         IN IF is_some(block.right) THEN b
            ELSE LET spawn_x == FAdd(FAdd(block.translation[1], block.size[1]), dx)
                     spawn_y == block.translation[2]
                     bundle == Bundle(spawn_x, spawn_y, dx, dy)
                     new_block == BlobBlock(b.next_entity, None, None,
                                            Some(pos), None, Len(b.blocks),
                                            bundle.size, bundle.translation)
                 IN Attach(b, pos, "right", new_block)

add_to_top_NoOccupiedCheck(b, dx, dy) ==
    IF is_none(b.current_pos) THEN b
    ELSE LET pos == unwrap(b.current_pos)
             block == BlockAt(b, pos)
             spawn_x == block.translation[1]
             spawn_y == FAdd(FAdd(block.translation[2], block.size[2]), dy)
             bundle == Bundle(spawn_x, spawn_y, dx, dy)
             new_block == BlobBlock(b.next_entity, None, Some(pos),
                                    None, None, Len(b.blocks),
                                    bundle.size, bundle.translation)
         IN Attach(b, pos, "top", new_block)

add_to_top_NoParentExtent(b, dx, dy) ==
    IF is_none(b.current_pos) THEN b
    ELSE LET pos == unwrap(b.current_pos)
             block == BlockAt(b, pos)
         IN IF is_some(block.top) THEN b
            ELSE LET spawn_x == block.translation[1]
                     spawn_y == FAdd(block.translation[2], dy)
                     bundle == Bundle(spawn_x, spawn_y, dx, dy)
                     new_block == BlobBlock(b.next_entity, None, Some(pos),
                                            None, None, Len(b.blocks),
                                            bundle.size, bundle.translation)
                 IN Attach(b, pos, "top", new_block)

add_to_top(b, dx, dy) ==
    IF is_none(b.current_pos) THEN b
    ELSE LET pos == unwrap(b.current_pos)
             block == BlockAt(b, pos)
         IN IF is_some(block.top) THEN b
            ELSE LET spawn_x == block.translation[1]
                     spawn_y == FAdd(FAdd(block.translation[2], block.size[2]), dy)
                     bundle == Bundle(spawn_x, spawn_y, dx, dy)
                     new_block == BlobBlock(b.next_entity, None, Some(pos),
                                            None, None, Len(b.blocks),
                                            bundle.size, bundle.translation)
                 IN Attach(b, pos, "top", new_block)

add_to_bottom_NoOccupiedCheck(b, dx, dy) ==
    IF is_none(b.current_pos) THEN b
    ELSE LET pos == unwrap(b.current_pos)
             block == BlockAt(b, pos)
             spawn_x == block.translation[1]
             spawn_y == FSub(FSub(block.translation[2], block.size[2]), dy)
             bundle == Bundle(spawn_x, spawn_y, dx, dy)
             new_block == BlobBlock(b.next_entity, Some(pos), None,
                                    None, None, Len(b.blocks),
                                    bundle.size, bundle.translation)
         IN Attach(b, pos, "bottom", new_block)

add_to_bottom(b, dx, dy) ==
    IF is_none(b.current_pos) THEN b
    ELSE LET pos == unwrap(b.current_pos)
             block == BlockAt(b, pos)
         IN IF is_some(block.bottom) THEN b
            ELSE LET spawn_x == block.translation[1]
                     spawn_y == FSub(FSub(block.translation[2], block.size[2]), dy)
                     bundle == Bundle(spawn_x, spawn_y, dx, dy)
                     new_block == BlobBlock(b.next_entity, Some(pos), None,
                                            None, None, Len(b.blocks),
                                            bundle.size, bundle.translation)
                 IN Attach(b, pos, "bottom", new_block)

----------------------------------------------------------------------------
(* Specification of the assembler: any sequence of BlobBuilder calls       *)

\* half-extents passed to add_to_*
AsmSizes == {<<25 * One, 25 * One>>}

\* the call `op` took the builder to b
AsmCall(op, b) ==
    /\ Len(b.blocks) <= MaxBlocks
    /\ b.next_entity <= MaxEntities
    /\ SetBuilder(b)
    /\ last' = [op |-> op, pre |-> <<Builder>>]
    /\ UNCHANGED <<nodes, occupied_region, gstack, gpc, spawned, valid,
                   bstack, bpc, builds, nn_count, max_depth, tlast>>

CallClean == AsmCall("clean", clean(Builder))
CallLeft == AsmCall("left", left(Builder))
CallRight == AsmCall("right", right(Builder))
CallTop == AsmCall("top", top(Builder))
CallBottom == AsmCall("bottom", bottom(Builder))
CallReset == AsmCall("reset", reset(Builder))
CallCreateFirst ==
    AsmCall("create_first",
            create_first(Builder, Bundle(0, 0, DEFAULT_BLOCK_SIZE[1],
                                         DEFAULT_BLOCK_SIZE[2])))
CallAddToLeft ==
    \E sz \in AsmSizes : AsmCall("add_to_left", add_to_left(Builder, sz[1], sz[2]))
CallAddToRight ==
    \E sz \in AsmSizes : AsmCall("add_to_right", add_to_right(Builder, sz[1], sz[2]))
CallAddToTop ==
    \E sz \in AsmSizes : AsmCall("add_to_top", add_to_top(Builder, sz[1], sz[2]))
CallAddToBottom ==
    \E sz \in AsmSizes : AsmCall("add_to_bottom", add_to_bottom(Builder, sz[1], sz[2]))

InitAsm ==
    /\ nodes = new_rand_tree
    /\ occupied_region = <<>>
    /\ gstack = <<>>
    /\ gpc = "idle"
    /\ spawned = 0
    /\ valid = None
    /\ InitAssembler
    /\ InitIdleBuild

NextAsm ==
    \/ CallClean
    \/ CallLeft
    \/ CallRight
    \/ CallTop
    \/ CallBottom
    \/ CallReset
    \/ CallCreateFirst
    \/ CallAddToLeft
    \/ CallAddToRight
    \/ CallAddToTop
    \/ CallAddToBottom

SpecAsm == InitAsm /\ [][NextAsm]_vars

----------------------------------------------------------------------------
(* GenoBlobBuilder::build                                                  *)

BuildTop == bstack[Len(bstack)]

\* the identity a creating call hands back: the index of the controller it
\* pushed, or None when the call created nothing
CreatedNnId(before, after) ==
    IF Len(after.blocks) > Len(before.blocks) THEN Some(nn_count) ELSE None

\* BlobGeno::assign_nn_id_to_root on a root that is a Child; any other root
\* makes it panic
assign_nn_id_to_root(tree, id) ==
    IF is_none(unwrap(tree[0]).nn_id)
    THEN [tree EXCEPT ![0] = Some([unwrap(tree[0]) EXCEPT !.nn_id = Some(id)])]
    ELSE tree

AssignNnId_Overwrite(node, nn_id) == [node EXCEPT !.nn_id = nn_id]

\* `if node.nn_id.is_none() { node.nn_id = nn_id }`
AssignNnId(node, nn_id) ==
    IF is_none(node.nn_id) THEN [node EXCEPT !.nn_id = nn_id] ELSE node

\* tree.nodes.get_mut(children[p]).and_then(lambda) is Some
LimbChild(tree, index, p) ==
    /\ InRange(tree, children(index)[p])
    /\ IsChild(tree[children(index)[p]])

BuildPending_Revisit(tree, f) == {p \in 1 .. 4 : LimbChild(tree, f.index, p)}

\* the directions after f.d in which build_node still finds a limb
BuildPending(tree, f) == {p \in f.d + 1 .. 4 : LimbChild(tree, f.index, p)}

\* builder.add_to_top / add_to_bottom / add_to_left / add_to_right, by the
\* position of the child in `children`
AddToDirection(p, b, dx, dy) ==
    IF p = 1 THEN add_to_top(b, dx, dy)
    ELSE IF p = 2 THEN add_to_bottom(b, dx, dy)
    ELSE IF p = 3 THEN add_to_left(b, dx, dy)
    ELSE add_to_right(b, dx, dy)

\* the navigation call that follows the recursion into child p
StepBack(p, b) ==
    IF p = 1 THEN bottom(b)
    ELSE IF p = 2 THEN top(b)
    ELSE IF p = 3 THEN right(b)
    ELSE left(b)

\* origins build is called with
Origins == {<<0, 0>>}

\* build up to the entry of build_node(.., 0): update_geno, get_first,
\* create_first, assign_nn_id_to_root
BuildStartAt(origins) ==
    /\ bpc = "idle" /\ builds < MaxBuilds
    /\ IsChild(nodes[0])
    /\ \E center \in origins :
          LET first == unwrap(nodes[0])
              b == create_first(Builder, Bundle(center[1], center[2],
                                                first.size[1], first.size[2]))
              id == unwrap(CreatedNnId(Builder, b))
          IN /\ SetBuilder(b)
             /\ nodes' = assign_nn_id_to_root(nodes, id)
             /\ nn_count' = nn_count + 1
    /\ bstack' = <<[index |-> 0, d |-> 0]>>
    /\ bpc' = "walking"
    /\ builds' = builds + 1
    /\ UNCHANGED <<occupied_region, gstack, gpc, spawned, valid, last, max_depth, tlast>>

BuildStart == BuildStartAt(Origins)

\* `geno.get_first().unwrap()` on a root that is not a Child
BuildPanic ==
    /\ bpc = "idle" /\ builds < MaxBuilds
    /\ ~IsChild(nodes[0])
    /\ bpc' = "panicked"
    /\ builds' = builds + 1
    /\ UNCHANGED <<nodes, occupied_region, gstack, gpc, spawned, valid,
                   blocks, current_pos, blob, next_entity, group, joints,
                   bstack, nn_count, last, max_depth, tlast>>

\* build_node reaches its next limb child: add_to_*, nn_id, recursive call
BuildAttach ==
    /\ bpc = "walking" /\ bstack # <<>>
    /\ BuildPending(nodes, BuildTop) # {}
    /\ LET f == BuildTop
           p == Min(BuildPending(nodes, f))
           child == children(f.index)[p]
           node == unwrap(nodes[child])
           b == AddToDirection(p, Builder, node.size[1], node.size[2])
           nn_id == CreatedNnId(Builder, b)
       IN /\ SetBuilder(b)
          /\ nodes' = [nodes EXCEPT ![child] = Some(AssignNnId(node, nn_id))]
          /\ nn_count' = IF is_some(nn_id) THEN nn_count + 1 ELSE nn_count
          /\ bstack' = [bstack EXCEPT ![Len(bstack)] = [f EXCEPT !.d = p]]
                          \o <<[index |-> child, d |-> 0]>>
    /\ UNCHANGED <<occupied_region, gstack, gpc, spawned, valid, bpc, builds,
                   last, max_depth, tlast>>

\* build_node returns; its caller steps the cursor back
BuildReturn ==
    /\ bpc = "walking" /\ bstack # <<>>
    /\ BuildPending(nodes, BuildTop) = {}
    /\ bstack' = SubSeq(bstack, 1, Len(bstack) - 1)
    /\ IF Len(bstack) = 1
       THEN /\ bpc' = "walked"
            /\ UNCHANGED <<blocks, current_pos, blob, next_entity, group, joints>>
       ELSE /\ bpc' = bpc
            /\ SetBuilder(StepBack(bstack[Len(bstack) - 1].d, Builder))
    /\ UNCHANGED <<nodes, occupied_region, gstack, gpc, spawned, valid,
                   builds, nn_count, last, max_depth, tlast>>

BuildClean_Skipped ==
    /\ bpc = "walked"
    /\ bpc' = "idle"
    /\ UNCHANGED <<nodes, occupied_region, gstack, gpc, spawned, valid,
                   blocks, current_pos, blob, next_entity, group, joints,
                   bstack, builds, nn_count, last, max_depth, tlast>>

\* `self.builder.clean()`, the last statement of build
BuildClean ==
    /\ bpc = "walked"
    /\ SetBuilder(clean(Builder))
    /\ bpc' = "idle"
    /\ UNCHANGED <<nodes, occupied_region, gstack, gpc, spawned, valid,
                   bstack, builds, nn_count, last, max_depth, tlast>>

----------------------------------------------------------------------------
(* Specification of building: genotypes of any shape, built repeatedly     *)

\* half-extent of the limbs of the genotypes given to build
LimbSize == <<25 * One, 25 * One>>

\* a genotype with limbs in the slots of L and parent indicators in those of P
GenoWith(root, L, P) ==
    [i \in DOMAIN new_rand_tree |->
        IF i = 0 THEN root
        ELSE IF i \in L THEN Some(Child(LimbSize, <<0, 0>>, None))
        ELSE IF i \in P THEN Some(ParentNode)
        ELSE None]

\* where the genotypes given to build carry a parent indicator
IndicatorSlots == {{}} \cup {{q} : q \in 1 .. 4}

BuildGenos ==
    {GenoWith(Some(GenoNode_default), L, P) :
        <<L, P>> \in {lp \in (SUBSET (1 .. 16)) \X IndicatorSlots :
                        /\ Cardinality(lp[1]) <= MaxLimbs
                        /\ lp[1] \cap lp[2] = {}}}
    \cup {GenoWith(None, {}, {}), GenoWith(Some(ParentNode), {}, {})}

InitBuild ==
    /\ nodes \in BuildGenos
    /\ occupied_region = <<>>
    /\ gstack = <<>>
    /\ gpc = "idle"
    /\ spawned = 0
    /\ valid = None
    /\ InitAssembler
    /\ InitIdleBuild

NextBuild ==
    \/ BuildStart
    \/ BuildPanic
    \/ BuildAttach
    \/ BuildReturn
    \/ BuildClean

SpecBuild == InitBuild /\ [][NextBuild]_vars

----------------------------------------------------------------------------
(* Properties of generation                                                *)

GenDone == gpc \in {"returned", "checked"}

\* the in-range child slots of node i
ChildSlots(tree, i) == {children(i)[p] : p \in 1 .. 4} \cap DOMAIN tree

\* a Limb below the root's children
HasDepth2Limb(tree) == \E i \in DOMAIN tree : i >= 5 /\ IsChild(tree[i])

\* C1: every genotype new_rand returns, whatever the random choices were,
\* makes is_valid() return true.
C1_GeneratedIsValid == is_some(valid) => unwrap(valid) = TRUE

C1_Witness ==
    /\ gpc = "checked" /\ valid = Some(TRUE)
    /\ HasDepth2Limb(nodes)
    /\ Cardinality({i \in 1 .. 4 : IsChild(nodes[i])}) >= 2

\* C2: in every genotype new_rand returns, every non-empty node with at
\* least one non-empty child slot has exactly one child slot holding the
\* parent indicator; the root included.
C2_OneParentIndicator ==
    GenDone =>
        \A i \in DOMAIN nodes :
            (is_some(nodes[i])
             /\ \E c \in ChildSlots(nodes, i) : is_some(nodes[c]))
            => Cardinality({c \in ChildSlots(nodes, i) : IsParent(nodes[c])}) = 1

C2_Witness ==
    /\ GenDone
    /\ \E i \in 1 .. 4 :
          /\ IsChild(nodes[i])
          /\ \E c \in ChildSlots(nodes, i) : IsChild(nodes[c])
          /\ Cardinality({c \in ChildSlots(nodes, i) : IsParent(nodes[c])}) = 1

----------------------------------------------------------------------------
(* Properties of the assembler                                             *)

AddOps == {"add_to_top", "add_to_bottom", "add_to_left", "add_to_right"}
NavOps == {"top", "bottom", "left", "right"}
Slots == {"top", "bottom", "left", "right"}

\* the direction an add_to_* or navigation call is about
SlotOf(op) ==
    CASE op \in {"add_to_top", "top"} -> "top"
      [] op \in {"add_to_bottom", "bottom"} -> "bottom"
      [] op \in {"add_to_left", "left"} -> "left"
      [] op \in {"add_to_right", "right"} -> "right"

Opposite(slot) ==
    CASE slot = "top" -> "bottom"
      [] slot = "bottom" -> "top"
      [] slot = "left" -> "right"
      [] slot = "right" -> "left"

\* the builder as the last call found it
Pre == unwrap(last.pre)

\* the last call was an add_to_* that the code refuses
AttachRefused ==
    /\ last.op \in AddOps
    /\ \/ is_none(Pre.current_pos)
       \/ is_some(BlockAt(Pre, unwrap(Pre.current_pos))[SlotOf(last.op)])

\* the last call was an add_to_* with the cursor set and the slot free
AttachAccepted ==
    /\ last.op \in AddOps
    /\ is_some(Pre.current_pos)
    /\ is_none(BlockAt(Pre, unwrap(Pre.current_pos))[SlotOf(last.op)])

\* C5: add_to_* with the cursor unset, or with the cursor block's slot in
\* that direction already linked, changes nothing: no block appended, no
\* joint, no link changed, cursor kept.
C5_RefusedAttachIsNoOp == AttachRefused => Builder = Pre

C5_Witness ==
    /\ last.op = "add_to_bottom"
    /\ is_some(Pre.current_pos)
    /\ is_some(BlockAt(Pre, unwrap(Pre.current_pos)).bottom)
    /\ Len(blocks) >= 2

\* C6: top()/bottom()/left()/right() move the cursor to the neighbour linked
\* in that direction when there is one and otherwise leave it; with no
\* blocks the cursor stays None; blocks and links never change.
C6_NavigationMovesCursorOnly ==
    last.op \in NavOps =>
        /\ blocks = Pre.blocks
        /\ joints = Pre.joints /\ group = Pre.group /\ blob = Pre.blob
        /\ current_pos =
              IF is_some(Pre.current_pos)
                 /\ is_some(BlockAt(Pre, unwrap(Pre.current_pos))[SlotOf(last.op)])
              THEN BlockAt(Pre, unwrap(Pre.current_pos))[SlotOf(last.op)]
              ELSE Pre.current_pos
        /\ (Pre.blocks = <<>> => current_pos = None)

C6_Witness ==
    /\ last.op = "left"
    /\ is_some(current_pos)
    /\ current_pos # Pre.current_pos
    /\ current_pos = BlockAt(Pre, unwrap(Pre.current_pos)).left

\* C9: after create_first, whatever the builder held, the cursor is on the
\* block just created, which is block 0 and records its own position.
C9_CreateFirstCursorOnNewBlock ==
    last.op = "create_first" =>
        /\ current_pos = Some(Len(blocks) - 1)
        /\ Len(blocks) - 1 = 0
        /\ blocks[Len(blocks)].vec_index = Len(blocks) - 1

\* C10: an accepted add_to_* appends exactly one block, links it into the
\* slot of the former cursor block and links the opposite slot of the new
\* block back, leaves the new block's three other slots and every other
\* block alone, and moves the cursor to the new block.
C10_AttachLinksBothWays ==
    AttachAccepted =>
        LET pos == unwrap(Pre.current_pos)
            n == Len(Pre.blocks)
            D == SlotOf(last.op)
        IN /\ Len(blocks) = n + 1
           /\ blocks[pos + 1] = [Pre.blocks[pos + 1] EXCEPT ![D] = Some(n)]
           /\ blocks[n + 1][Opposite(D)] = Some(pos)
           /\ \A sl \in Slots \ {Opposite(D)} : blocks[n + 1][sl] = None
           /\ \A i \in 1 .. n : i # pos + 1 => blocks[i] = Pre.blocks[i]
           /\ current_pos = Some(n)

C10_Witness ==
    /\ AttachAccepted
    /\ last.op = "add_to_right"
    /\ Len(Pre.blocks) >= 2
    /\ Len(blocks) = Len(Pre.blocks) + 1

----------------------------------------------------------------------------
(* Properties of building                                                  *)

\* build has returned at least once and none is under way
BuildReturned == bpc = "idle" /\ builds > 0

\* the joints made since the builder was last cleaned
BuildJoints == {j \in joints : <<j.child, blob>> \in group}

\* the blob entities that blocks were grouped under
Blobs == {p[2] : p \in group}

\* C3: an nn_id that is Some is never overwritten by any build: building the
\* same genotype again leaves the root's nn_id and every limb's nn_id as the
\* first build set them.
C3_NnIdNeverOverwritten ==
    [][\A i \in DOMAIN nodes :
          (IsChild(nodes[i]) /\ is_some(unwrap(nodes[i]).nn_id))
              => nodes'[i] = nodes[i]]_vars

C3_Witness ==
    /\ builds = 2 /\ bpc = "walked"
    /\ nn_count >= 4
    /\ unwrap(nodes[0]).nn_id = Some(0)
    /\ \E i \in 1 .. 4 : IsChild(nodes[i]) /\ unwrap(nodes[i]).nn_id = Some(1)

\* a genotype without the identities the builds gave it
Shape(tree) ==
    [i \in DOMAIN tree |->
        IF IsChild(tree[i]) THEN Some([unwrap(tree[i]) EXCEPT !.nn_id = None])
        ELSE tree[i]]

\* the root with the default size, limbs of half-extent [25,25] on top, left
\* and right, the parent indicator at the bottom, walked from the origin
ScenarioBuilt ==
    /\ Shape(nodes) = GenoWith(Some(GenoNode_default), {1, 3, 4}, {2})
    /\ bpc = "walked"
    /\ blocks # <<>>
    /\ blocks[1].translation = <<0, 0>>

\* the block linked in a slot of block 0
SegmentAt(slot) == blocks[unwrap(blocks[1][slot]) + 1]

ScenarioCounts ==
    /\ Len(blocks) = 4
    /\ Cardinality(BuildJoints) = 3
    /\ is_some(blocks[1].top) /\ is_some(blocks[1].left)
    /\ is_some(blocks[1].right) /\ is_none(blocks[1].bottom)

\* C4 as stated: the scenario creates 4 segments and 3 joints, the top, left
\* and right segments centred at [0,100], [-100,0] and [100,0].
C4_ScenarioCentresAsStated ==
    ScenarioBuilt =>
        /\ ScenarioCounts
        /\ SegmentAt("top").translation = <<0, 100 * One>>
        /\ SegmentAt("left").translation = <<-(100 * One), 0>>
        /\ SegmentAt("right").translation = <<100 * One, 0>>

\* C4 amended: the scenario creates 4 segments and 3 joints, the top, left
\* and right segments flush against the root: centred at [0,75], [-75,0]
\* and [75,0], parent half-extent 50 plus child half-extent 25.
C4_ScenarioCentresFlush ==
    ScenarioBuilt =>
        /\ ScenarioCounts
        /\ SegmentAt("top").translation = <<0, 75 * One>>
        /\ SegmentAt("left").translation = <<-(75 * One), 0>>
        /\ SegmentAt("right").translation = <<75 * One, 0>>

C4_Witness ==
    /\ ScenarioBuilt
    /\ builds = 1
    /\ Len(blocks) = 4
    /\ current_pos = Some(0)

\* C7: every build starts from an assembler holding no block and no cursor;
\* the blocks it holds all belong to the body under construction, links stay
\* among them, and no joint connects segments of two different builds.
C7_BuildsAreSeparate ==
    /\ bpc = "idle" => (blocks = <<>> /\ current_pos = None)
    /\ \A i \in 1 .. Len(blocks) :
          /\ <<blocks[i].id, blob>> \in group
          /\ \A slot \in Slots :
                is_some(blocks[i][slot]) => unwrap(blocks[i][slot]) < Len(blocks)
    /\ \A j \in joints : \A g \in Blobs :
          <<j.parent, g>> \in group <=> <<j.child, g>> \in group

C7_Witness ==
    /\ builds = 2 /\ bpc = "walked"
    /\ Len(blocks) >= 3
    /\ Cardinality(BuildJoints) >= 2
    /\ Cardinality(joints \ BuildJoints) >= 2

\* C8 as stated: when build returns the assembler still holds the segments
\* it has just built.
C8_BodyStillHeld == BuildReturned => blocks # <<>>

\* C8 amended: the assembler holds the body only until the walk is over;
\* build ends by cleaning it, so when build returns the assembler holds no
\* block and no cursor and the segments exist in the engine only.
C8_ClearedOnReturn ==
    /\ bpc = "walked" => (blocks # <<>> /\ is_some(current_pos))
    /\ BuildReturned =>
          /\ blocks = <<>> /\ current_pos = None
          /\ BuildJoints = {}
          /\ group # {}

C8_Witness ==
    /\ BuildReturned
    /\ builds = 1
    /\ Cardinality(joints) = 3
    /\ blocks = <<>>

----------------------------------------------------------------------------
(* Further properties of the assembler                                     *)

\* C11: reset() puts the cursor on block 0 whenever the builder holds a
\* block and leaves it None when it holds none; blocks, links, joints and
\* the engine's entities never change.
C11_ResetSnapsToFirst ==
    last.op = "reset" =>
        /\ blocks = Pre.blocks
        /\ joints = Pre.joints /\ group = Pre.group /\ blob = Pre.blob
        /\ next_entity = Pre.next_entity
        /\ (Pre.blocks # <<>> => current_pos = Some(0))
        /\ (Pre.blocks = <<>> => current_pos = None)

C11_Witness ==
    /\ last.op = "reset"
    /\ Len(Pre.blocks) >= 3
    /\ Pre.current_pos = Some(2)
    /\ current_pos = Some(0)

----------------------------------------------------------------------------
(* QuadTree and BlobGeno operations called on their own                    *)

\* floor(log4(n)) for n >= 1
RECURSIVE Log4Floor(_)
Log4Floor(n) == IF n < 4 THEN 0 ELSE 1 + Log4Floor(n \div 4)

\* `(index as f64).log(4.0).floor() as u32`; log of 0 is -inf and the cast
\* saturates at 0
depth(index) == IF index = 0 THEN 0 ELSE Log4Floor(index)

is_leaf(tree, index) ==
    \A k \in 1 .. 4 :
        \/ children(index)[k] >= len(tree)
        \/ is_none(tree[children(index)[k]])

\* `self.nodes[index] = None` indexes out of bounds
clean_subtree_panics(tree, index) == index >= len(tree)

RECURSIVE clean_subtree(_, _)
RECURSIVE CleanChildren(_, _, _)

\* the loop over child_indices from the k-th child on
CleanChildren(tree, index, k) ==
    IF k > 4 THEN tree
    ELSE LET child_index == children(index)[k]
         IN CleanChildren(IF child_index < len(tree) /\ is_some(tree[child_index])
                          THEN clean_subtree(tree, child_index)
                          ELSE tree,
                          index, k + 1)

clean_subtree_SelfOnly(tree, index) == [tree EXCEPT ![index] = None]

clean_subtree(tree, index) ==
    CleanChildren([tree EXCEPT ![index] = None], index, 1)

clean_subtree_without_self(tree, index) == CleanChildren(tree, index, 1)

\* `self.max_depth - 1` is evaluated for a node that is Some; with
\* max_depth = 0 the subtraction overflows
branch_nodes_overflows(tree, md) == md = 0 /\ \E i \in DOMAIN tree : is_some(tree[i])

DepthBelowLast_NoMinus(i, md) == depth(i) < md

\* `self.depth(i) < self.max_depth - 1` in u32: where the subtraction wraps
\* instead of trapping it yields u32::MAX, above every depth
DepthBelowLast(i, md) == IF md = 0 THEN TRUE ELSE depth(i) < md - 1

RECURSIVE BranchNodesFrom(_, _, _)
\* the loop of branch_nodes from index i on
BranchNodesFrom(tree, md, i) ==
    IF i >= len(tree) THEN <<>>
    ELSE (IF /\ is_some(tree[i])
             /\ DepthBelowLast(i, md)
             /\ \E k \in 1 .. 4 : \/ children(i)[k] >= len(tree)
                                  \/ is_none(tree[children(i)[k]])
          THEN <<i>> ELSE <<>>) \o BranchNodesFrom(tree, md, i + 1)

\* branch_nodes where the subtraction does not trap
branch_nodes(tree, md) == BranchNodesFrom(tree, md, 0)

leaf_nodes_ParentIsLeaf(tree) ==
    LET RECURSIVE From(_)
        From(i) ==
            IF i >= len(tree) THEN <<>>
            ELSE (IF is_some(tree[i]) /\ is_leaf(tree, i) THEN <<i>> ELSE <<>>)
                     \o From(i + 1)
    IN From(1)

RECURSIVE LeafNodesFrom(_, _)
LeafNodesFrom(tree, i) ==
    IF i >= len(tree) THEN <<>>
    ELSE (IF IsParent(tree[i]) THEN <<>>
          ELSE IF /\ is_some(tree[i])
                  /\ \A k \in 1 .. 4 :
                        \/ children(i)[k] >= len(tree)
                        \/ is_none(tree[children(i)[k]])
                        \/ IsParent(tree[children(i)[k]])
          THEN <<i>> ELSE <<>>) \o LeafNodesFrom(tree, i + 1)

leaf_nodes(tree) == LeafNodesFrom(tree, 1)

assign_nn_id_to_root_panics_Always(tree) == TRUE

\* the else branch of assign_nn_id_to_root: panic!()
assign_nn_id_to_root_panics(tree) == ~IsChild(get(tree, 0))

----------------------------------------------------------------------------
(* Specification of the tree operations: any tree, any index              *)

\* the largest index handed to an operation, beyond the capacity 17
MaxIndex == 18

\* the largest number of non-empty slots of the trees operated on
MaxFilled == 3

\* a tree of the given depth with the slots of L filled, those of P by the
\* parent indicator and the others by a limb
TreeWith(md, L, P) ==
    [i \in DOMAIN QuadTree_new(md) |->
        IF i \in P THEN Some(ParentNode)
        ELSE IF i \in L THEN Some(Child(LimbSize, <<0, 0>>, None))
        ELSE None]

TreesOf(md) ==
    UNION {{TreeWith(md, L, P) : P \in {{}} \cup {{q} : q \in L \cap (0 .. 5)}} :
              L \in {F \in SUBSET DOMAIN QuadTree_new(md) :
                        Cardinality(F) <= MaxFilled}}

\* a call of `op` with `index` on a tree as it was handed over, which leaves
\* the tree as `tree` and returns `ret`
TreeCall(op, index, tree, ret) ==
    /\ tlast.op = "new"
    /\ nodes' = tree
    /\ tlast' = [op |-> op, index |-> index, pre |-> <<nodes>>,
                 panic |-> FALSE, ret |-> ret]
    /\ UNCHANGED <<occupied_region, gstack, gpc, spawned, valid,
                   blocks, current_pos, blob, next_entity, group, joints,
                   bstack, bpc, builds, nn_count, last, max_depth>>

\* a call of `op` with `index` that panics
TreePanic(op, index) ==
    /\ tlast.op = "new"
    /\ tlast' = [op |-> op, index |-> index, pre |-> <<nodes>>,
                 panic |-> TRUE, ret |-> <<>>]
    /\ UNCHANGED <<nodes, occupied_region, gstack, gpc, spawned, valid,
                   blocks, current_pos, blob, next_entity, group, joints,
                   bstack, bpc, builds, nn_count, last, max_depth>>

\* parent, children and depth read no slot; they are called on the trees
\* that hold at most one node
FewNodes == Cardinality({i \in DOMAIN nodes : is_some(nodes[i])}) <= 1

CallParent ==
    /\ FewNodes
    /\ \E i \in 0 .. MaxIndex : TreeCall("parent", i, nodes, parent(i))
CallChildren ==
    /\ FewNodes
    /\ \E i \in 0 .. MaxIndex : TreeCall("children", i, nodes, children(i))
CallDepth ==
    /\ FewNodes
    /\ \E i \in 0 .. MaxIndex : TreeCall("depth", i, nodes, depth(i))
CallIsLeaf == \E i \in 0 .. MaxIndex : TreeCall("is_leaf", i, nodes, is_leaf(nodes, i))

CallCleanSubtree ==
    \E i \in 0 .. MaxIndex :
        IF clean_subtree_panics(nodes, i)
        THEN TreePanic("clean_subtree", i)
        ELSE TreeCall("clean_subtree", i, clean_subtree(nodes, i), "ok")

CallCleanSubtreeWithoutSelf ==
    \E i \in 0 .. MaxIndex :
        TreeCall("clean_subtree_without_self", i,
                 clean_subtree_without_self(nodes, i), "ok")

\* the overflowing subtraction traps in a build with overflow checks and
\* wraps in one without
CallBranchNodes ==
    \/ /\ branch_nodes_overflows(nodes, max_depth)
       /\ TreePanic("branch_nodes", 0)
    \/ TreeCall("branch_nodes", 0, nodes, branch_nodes(nodes, max_depth))

CallLeafNodes == TreeCall("leaf_nodes", 0, nodes, leaf_nodes(nodes))

\* the identity handed to assign_nn_id_to_root
RootId == 7

CallAssignNnIdToRoot ==
    IF assign_nn_id_to_root_panics(nodes)
    THEN TreePanic("assign_nn_id_to_root", 0)
    ELSE TreeCall("assign_nn_id_to_root", 0,
                  assign_nn_id_to_root(nodes, RootId), "ok")

InitTree ==
    /\ max_depth \in 0 .. GENO_MAX_DEPTH
    /\ nodes \in TreesOf(max_depth)
    /\ tlast = [op |-> "new", index |-> 0, pre |-> <<>>, panic |-> FALSE, ret |-> <<>>]
    /\ occupied_region = <<>>
    /\ gstack = <<>>
    /\ gpc = "idle"
    /\ spawned = 0
    /\ valid = None
    /\ InitAssembler
    /\ bstack = <<>>
    /\ bpc = "idle"
    /\ builds = 0
    /\ nn_count = 0
    /\ last = [op |-> "from_commands", pre |-> <<>>]

NextTree ==
    \/ CallParent
    \/ CallChildren
    \/ CallDepth
    \/ CallIsLeaf
    \/ CallCleanSubtree
    \/ CallCleanSubtreeWithoutSelf
    \/ CallBranchNodes
    \/ CallLeafNodes
    \/ CallAssignNnIdToRoot

SpecTree == InitTree /\ [][NextTree]_vars

----------------------------------------------------------------------------
(* Properties of the tree operations                                       *)

\* the tree the last call was made on
TreePre == unwrap(tlast.pre)

\* the number of parent steps from a node up to the root
RECURSIVE NodeDepth(_)
NodeDepth(i) == IF i = 0 THEN 0 ELSE 1 + NodeDepth(unwrap(parent(i)))

\* C12: QuadTree::new(max_depth) allocates a slot for every node of depth
\* 0..max_depth, at least (4^(max_depth+1)-1)/3 slots, so the four children
\* of every node of depth below max_depth are inside nodes.
C12_CapacityHoldsEveryNode ==
    /\ len(nodes) >= (4^(max_depth + 1) - 1) \div 3
    /\ \A i \in DOMAIN nodes :
          NodeDepth(i) < max_depth =>
              \A k \in 1 .. 4 : children(i)[k] \in DOMAIN nodes

\* the operations of QuadTree
QuadTreeOps ==
    {"parent", "children", "depth", "is_leaf", "clean_subtree",
     "clean_subtree_without_self", "branch_nodes"}

\* C13: no QuadTree operation aborts when it is given an index >= capacity
\* or computes a child index >= capacity; such indices count as Empty.
C13_NoTreeOpAborts == tlast.op \in QuadTreeOps => ~tlast.panic

\* the slots below i joined to i by a chain of non-empty slots of the tree:
\* every slot on the way from i (excluded) down to j (included) is non-empty
RECURSIVE ChainedBelow(_, _, _)
ChainedBelow(tree, i, j) ==
    /\ j # i /\ j # 0
    /\ j \in DOMAIN tree /\ is_some(tree[j])
    /\ \/ unwrap(parent(j)) = i
       \/ ChainedBelow(tree, i, unwrap(parent(j)))

\* the slots of the subtree rooted at i, i included
RECURSIVE InSubtree(_, _)
InSubtree(i, j) ==
    \/ j = i
    \/ j > i /\ InSubtree(i, unwrap(parent(j)))

\* C14: clean_subtree(i) with i in range empties slot i and every descendant
\* joined to i by a chain of non-empty slots, and changes no slot outside
\* the subtree of i; clean_subtree_without_self(i) does the same and leaves
\* slot i as it was.
C14_CleanSubtreeFrame ==
    (tlast.op \in {"clean_subtree", "clean_subtree_without_self"}
        /\ tlast.index \in DOMAIN TreePre) =>
        LET i == tlast.index IN
        /\ ~tlast.panic
        /\ DOMAIN nodes = DOMAIN TreePre
        /\ nodes[i] = IF tlast.op = "clean_subtree" THEN None ELSE TreePre[i]
        /\ \A j \in DOMAIN nodes :
              /\ ChainedBelow(TreePre, i, j) => nodes[j] = None
              /\ ~InSubtree(i, j) => nodes[j] = TreePre[j]

C14_Witness ==
    /\ max_depth = 2
    /\ tlast.op = "clean_subtree"
    /\ tlast.index = 1
    /\ is_some(TreePre[1]) /\ is_some(TreePre[5]) /\ is_some(TreePre[2])
    /\ nodes[1] = None /\ nodes[5] = None /\ is_some(nodes[2])

----------------------------------------------------------------------------
(* Specification of validity checking: genotypes with any limb placement   *)

\* centres given to the limbs: flush on top of the root, sunk into the root
\* by less and by more than POSITION_EPSILON, flush beside the first, and
\* flush on the left of the root
ValidCenters ==
    {<<0, 75 * One>>, <<0, 75 * One - 4>>, <<0, 75 * One - 2 * POSITION_EPSILON>>,
     <<50 * One, 75 * One>>, <<-(75 * One), 0>>}

\* the slots that carry limbs: the children of the root and two of node 1
ValidSlots == 1 .. 6

\* the genotypes checked: limbs of half-extent LimbSize in the slots of
\* DOMAIN c, centred as c says, and parent indicators in the slots of P
ValidGenoWith(c, P) ==
    [i \in DOMAIN new_rand_tree |->
        IF i = 0 THEN Some(GenoNode_default)
        ELSE IF i \in P THEN Some(ParentNode)
        ELSE IF i \in DOMAIN c THEN Some(Child(LimbSize, c[i], None))
        ELSE None]

ValidGenos(limbs) ==
    UNION {{ValidGenoWith(c, P) : c \in [L -> ValidCenters], P \in {{}, {1}}} :
              L \in {F \in SUBSET ValidSlots : Cardinality(F) <= limbs}}

InitValid ==
    /\ nodes \in ValidGenos(MaxLimbs)
    /\ occupied_region = <<>>
    /\ gstack = <<>>
    /\ gpc = "returned"
    /\ spawned = 0
    /\ valid = None
    /\ InitAssembler
    /\ InitIdleBuild

NextValid == IsValidCall

SpecValid == InitValid /\ [][NextValid]_vars

----------------------------------------------------------------------------
(* Properties of validity checking                                        *)

\* the limbs joined to the root by a chain of limbs, the root included
RECURSIVE LimbChained(_, _)
LimbChained(tree, i) ==
    /\ i \in DOMAIN tree /\ IsChild(tree[i])
    /\ i # 0 => LimbChained(tree, unwrap(parent(i)))

\* how far the boxes a and b run into each other along one axis
Penetration(a, b, lo, hi) ==
    Min({a[hi] - b[lo], b[hi] - a[lo]})

\* the boxes of limbs i and j intersect by more than POSITION_EPSILON on
\* both axes
BoxesOverlap(tree, i, j) ==
    LET a == Box(unwrap(tree[i]).center, unwrap(tree[i]).size)
        b == Box(unwrap(tree[j]).center, unwrap(tree[j]).size)
    IN /\ Penetration(a, b, 1, 2) > POSITION_EPSILON
       /\ Penetration(a, b, 3, 4) > POSITION_EPSILON

SomeLimbsOverlap(tree) ==
    \E i, j \in DOMAIN tree :
        /\ i # j
        /\ LimbChained(tree, i) /\ LimbChained(tree, j)
        /\ BoxesOverlap(tree, i, j)

\* C15: is_valid() is false exactly when two limbs chained to the root have
\* boxes that intersect by more than the position epsilon on both axes;
\* flush boxes do not count, and limbs below a parent indicator or an Empty
\* slot do not count.
C15_IsValidExact ==
    is_some(valid) => (unwrap(valid) = FALSE <=> SomeLimbsOverlap(nodes))

\* invalid because of two limbs chained to the root that overlap one another
\* and not the root
C15_Witness ==
    /\ valid = Some(FALSE)
    /\ IsChild(nodes[1]) /\ IsChild(nodes[5])
    /\ ~BoxesOverlap(nodes, 0, 1) /\ ~BoxesOverlap(nodes, 0, 5)
    /\ BoxesOverlap(nodes, 1, 5)

\* valid although one limb is sunk into the root by less than the epsilon
\* and a limb below the parent indicator overlaps the root
C15_WitnessValid ==
    /\ valid = Some(TRUE)
    /\ IsParent(nodes[1]) /\ IsChild(nodes[5])
    /\ unwrap(nodes[5]).center = <<0, 75 * One - 2 * POSITION_EPSILON>>
    /\ IsChild(nodes[2])
    /\ unwrap(nodes[2]).center = <<0, 75 * One - 4>>

----------------------------------------------------------------------------
(* Properties of the genotype queries                                      *)

\* a child slot that counts as absent for leaf_nodes
NoLimbAt(tree, j) == j \notin DOMAIN tree \/ tree[j] = None \/ IsParent(tree[j])

\* the elements of a sequence
Range(s) == {s[k] : k \in DOMAIN s}

\* C16: leaf_nodes() returns exactly the indices i >= 1 whose slot is a Limb
\* and whose four child slots are each out of range, Empty or the parent
\* indicator; index 0 is never returned.
C16_LeafNodesExact ==
    tlast.op = "leaf_nodes" =>
        /\ ~tlast.panic
        /\ nodes = TreePre
        /\ Range(tlast.ret) =
              {i \in DOMAIN nodes \ {0} :
                  /\ IsChild(nodes[i])
                  /\ \A k \in 1 .. 4 : NoLimbAt(nodes, children(i)[k])}
        /\ \A k \in DOMAIN tlast.ret : k > 1 => tlast.ret[k - 1] < tlast.ret[k]

\* a limb whose only non-empty child is the parent indicator is a leaf, the
\* indicator itself is not, and the root is not
C16_Witness ==
    /\ max_depth = 2
    /\ tlast.op = "leaf_nodes"
    /\ IsChild(nodes[0]) /\ IsChild(nodes[1]) /\ IsParent(nodes[5])
    /\ tlast.ret = <<1>>

\* C17: assign_nn_id_to_root panics whenever slot 0 is Empty or the parent
\* indicator, and then writes no nn_id anywhere; with a Limb in slot 0 it
\* does not panic.
C17_AssignToRootPanics ==
    tlast.op = "assign_nn_id_to_root" =>
        /\ tlast.panic <=> ~IsChild(TreePre[0])
        /\ tlast.panic => nodes = TreePre
        /\ \A i \in DOMAIN nodes \ {0} : nodes[i] = TreePre[i]

C17_Witness ==
    /\ max_depth = 2
    /\ tlast.op = "assign_nn_id_to_root"
    /\ tlast.panic
    /\ IsParent(TreePre[0])
    /\ IsChild(nodes[1]) /\ nodes = TreePre

\* with a Limb in slot 0 the call returns and the root carries the identity
C17_WitnessLimb ==
    /\ tlast.op = "assign_nn_id_to_root"
    /\ ~tlast.panic
    /\ unwrap(nodes[0]).nn_id = Some(RootId)

----------------------------------------------------------------------------
(* Properties of the walk of build                                         *)

\* the slot of a block that direction p of `children` is attached in
DirSlot(p) == <<"top", "bottom", "left", "right">>[p]

\* the direction in which node i hangs on its parent
DirOf(i) == ((i - 1) % 4) + 1

\* the block found from block 0 along the directions that lead from the
\* root to node i
RECURSIVE SegmentOf(_)
SegmentOf(i) ==
    IF i = 0 THEN Some(0)
    ELSE LET s == SegmentOf(unwrap(parent(i)))
         IN IF is_none(s) \/ unwrap(s) >= Len(blocks) THEN None
            ELSE blocks[unwrap(s) + 1][DirSlot(DirOf(i))]

\* build_node is between two directions of node i, back from a child
BackFromChild == bpc = "walking" /\ bstack # <<>> /\ BuildTop.d > 0

\* C18: whenever build_node is back from the recursion into a limb child of
\* node i and has called the navigation for the opposite direction, the
\* cursor is on the segment built for i; also for a genotype where a node
\* has a limb child in the direction that points back to its own parent.
C18_CursorBackOnNode ==
    BackFromChild => current_pos = SegmentOf(BuildTop.index)

\* the limbs of the genotype chained to the root
ChainedLimbs == {i \in DOMAIN nodes : LimbChained(nodes, i)}

\* the walk of build_node is over and the builder not yet cleaned
Walked == bpc = "walked"

\* C19: at the end of the walk the blocks correspond one-to-one to the limbs
\* chained to the root: each such limb has its own block, linked in the slot
\* of its direction on its parent's block, and there is no other block.
C19_SegmentsMatchLimbs ==
    Walked =>
        /\ Len(blocks) = Cardinality(ChainedLimbs)
        /\ \A i \in ChainedLimbs : is_some(SegmentOf(i))
        /\ \A i, j \in ChainedLimbs : i # j => SegmentOf(i) # SegmentOf(j)

----------------------------------------------------------------------------
(* Invariants of the assembler                                             *)

\* slot D of block a holds b
Linked(a, D, b) == blocks[a + 1][D] = Some(b)

\* C20: in every state reached by create_first, add_to_*, navigation, reset
\* and clean, adjacency is symmetric: slot D of block a holds b if and only
\* if slot opposite(D) of block b holds a; every link designates a block.
C20_AdjacencySymmetric ==
    \A a \in 0 .. Len(blocks) - 1 : \A D \in Slots :
        /\ is_some(blocks[a + 1][D]) => unwrap(blocks[a + 1][D]) < Len(blocks)
        /\ \A b \in 0 .. Len(blocks) - 1 :
              Linked(a, D, b) <=> Linked(b, Opposite(D), a)

\* a chain of three blocks built after a clean, the cursor moved about
C20_Witness ==
    /\ Len(blocks) >= 3
    /\ blob # 0
    /\ Linked(0, "left", 1) /\ Linked(1, "top", 2)
    /\ last.op = "reset"

\* create_first has only been called on an empty builder since the last
\* clean: every block records its own position (create_first records 0)
StartedOnEmpty == \A k \in 1 .. Len(blocks) : blocks[k].vec_index = k - 1

\* the blocks that some slot of block a designates
Neighbours(a) == {unwrap(blocks[a + 1][D]) : D \in {E \in Slots : is_some(blocks[a + 1][E])}}

\* the blocks reached from those of S by following links
RECURSIVE ReachedFrom(_)
ReachedFrom(S) ==
    LET T == S \cup UNION {Neighbours(a) : a \in S}
    IN IF T = S THEN S ELSE ReachedFrom(T)

\* the number of slots that hold a link
LinkCount ==
    Cardinality({<<a, D>> \in (0 .. Len(blocks) - 1) \X Slots :
                    is_some(blocks[a + 1][D])})

\* the joints whose child is the entity of block a
JointsInto(a) == {j \in joints : j.child = blocks[a + 1].id}

\* C21: when create_first is only called on an empty builder the blocks form
\* a free tree: every block is reached from block 0, there are exactly
\* (number of blocks - 1) links, each stored in both directions, and one
\* joint for every block other than block 0.
C21_BlocksFormFreeTree ==
    (StartedOnEmpty /\ blocks # <<>>) =>
        /\ ReachedFrom({0}) = 0 .. Len(blocks) - 1
        /\ LinkCount = 2 * (Len(blocks) - 1)
        /\ JointsInto(0) = {}
        /\ \A a \in 1 .. Len(blocks) - 1 :
              /\ Cardinality(JointsInto(a)) = 1
              /\ \E p \in Neighbours(a) :
                    JointsInto(a) = {[parent |-> blocks[p + 1].id,
                                      child |-> blocks[a + 1].id]}

\* a branching body built after a clean
C21_Witness ==
    /\ StartedOnEmpty
    /\ blob # 0
    /\ Len(blocks) = 4
    /\ Cardinality(Neighbours(0)) = 2
    /\ \E a \in 1 .. 3 : Cardinality(Neighbours(a)) = 2

----------------------------------------------------------------------------
(* Further properties of generation                                        *)

\* the box of the limb in a slot
LimbBox(slot) == Box(unwrap(slot).center, unwrap(slot).size)

\* C22: the occupancy list of new_rand holds only boxes of accepted
\* candidates: whenever a box is appended, a limb with that box has just
\* been stored; the box of a discarded candidate is never appended.
C22_OnlyAcceptedBoxesListed ==
    [][Len(occupied_region') > Len(occupied_region) =>
          \E i \in DOMAIN nodes :
              /\ nodes'[i] # nodes[i]
              /\ IsChild(nodes'[i])
              /\ LimbBox(nodes'[i]) = occupied_region'[Len(occupied_region')]]_vars

\* the boxes a and b share interior points
InteriorsIntersect(a, b) ==
    a[1] < b[2] /\ a[2] > b[1] /\ a[3] < b[4] /\ a[4] > b[3]

\* the boxes a and b share at least a boundary point
BoxesTouch(a, b) ==
    a[1] <= b[2] /\ a[2] >= b[1] /\ a[3] <= b[4] /\ a[4] >= b[3]

\* rand_nodes has just tested a candidate child of a non-root limb whose box
\* intersects the interior of no listed box
FlushCandidateTested ==
    /\ gpc = "new_rand" /\ gstack # <<>>
    /\ GenTop.index # 0
    /\ Len(occupied_region') = Len(occupied_region) + 1
    /\ \A k \in DOMAIN occupied_region :
          ~InteriorsIntersect(occupied_region'[Len(occupied_region')],
                              occupied_region[k])

\* C23 as stated: a candidate child of a non-root limb, flush against its
\* parent and intersecting the interior of no other box, is accepted.
C23_FlushCandidateAccepted ==
    [][FlushCandidateTested =>
          IsChild(nodes'[children(GenTop.index)[GenTop.k + 1]])]_vars

\* C23 amended: the test being inclusive, a candidate whose box touches its
\* parent's box is discarded; the limbs accepted below the root's children
\* are those whose computed edge rounding has moved off the parent's edge,
\* so every such limb's box is strictly apart from its parent's box.
C23_Depth2LimbsOffParentEdge ==
    \A i \in DOMAIN nodes :
        (i >= 5 /\ IsChild(nodes[i]) /\ IsChild(nodes[unwrap(parent(i))])) =>
            ~BoxesTouch(LimbBox(nodes[i]), LimbBox(nodes[unwrap(parent(i))]))

\* generation has produced a limb below a child of the root
C23_Witness ==
    /\ gpc = "returned"
    /\ \E i \in 5 .. 16 :
          /\ IsChild(nodes[i]) /\ IsChild(nodes[unwrap(parent(i))])
          /\ ~InteriorsIntersect(LimbBox(nodes[i]), LimbBox(nodes[unwrap(parent(i))]))

----------------------------------------------------------------------------
(* Properties of the index arithmetic                                      *)

\* C24: children(i) are the four distinct indices 4i+1..4i+4 in the order
\* top, bottom, left, right, each with parent i; parent(0) is None; no index
\* is a child of two different nodes.
C24_ParentChildrenInverse ==
    /\ tlast.op = "children" =>
          LET i == tlast.index IN
          /\ tlast.ret = <<4 * i + 1, 4 * i + 2, 4 * i + 3, 4 * i + 4>>
          /\ \A k \in 1 .. 4 : parent(tlast.ret[k]) = Some(i)
          /\ \A k \in 1 .. 4 : DirOf(tlast.ret[k]) = k
          /\ \A j \in 0 .. 4 * MaxIndex + 4 :
                j # i => Range(children(j)) \cap Range(tlast.ret) = {}
    /\ tlast.op = "parent" =>
          IF tlast.index = 0 THEN tlast.ret = None
          ELSE /\ is_some(tlast.ret)
               /\ tlast.index \in Range(children(unwrap(tlast.ret)))

\* the children of the last node of depth 1, beyond the capacity 17
C24_Witness ==
    /\ tlast.op = "children"
    /\ tlast.index = 4
    /\ tlast.ret = <<17, 18, 19, 20>>
    /\ max_depth = 2


----------------------------------------------------------------------------
(* Specification of spawning: new_rand's genotype is checked and built     *)

\* origins the genotype of new_rand is built at: the world's origin and a
\* point whose coordinates make the f32 sums round
SpawnOrigins == {<<0, 0>>, <<100 * One, 3>>}

\* build is called, once, on the genotype new_rand returned
SpawnBuildStart ==
    /\ gpc = "checked" /\ builds = 0
    /\ BuildStartAt(SpawnOrigins)

NextSpawn ==
    \/ NextGen
    \/ SpawnBuildStart
    \/ BuildAttach
    \/ BuildReturn
    \/ BuildClean

SpecSpawn == InitGen /\ [][NextSpawn]_vars

----------------------------------------------------------------------------
(* Specification of the recursive functions running to their end: new_rand *)
(* and is_valid on the tree new_rand fills, build on a tree of any         *)
(* contents                                                                *)

\* new_rand is entered: the root is set and build(tree, 0, ..) is called
NewRandCall ==
    /\ gpc = "start"
    /\ nodes' = new_rand_tree
    /\ gstack' = GenEnter(new_rand_tree, 0)
    /\ gpc' = "new_rand"
    /\ UNCHANGED <<occupied_region, spawned>>
    /\ GenUnchanged

\* the genotype handed to build is not new_rand's: it holds any contents
GenoGiven ==
    /\ gpc = "start"
    /\ nodes' \in BuildGenos
    /\ gpc' = "idle"
    /\ UNCHANGED <<occupied_region, gstack, spawned>>
    /\ GenUnchanged

GivenBuildStart ==
    /\ gpc = "idle"
    /\ BuildStart

GivenBuildPanic ==
    /\ gpc = "idle"
    /\ BuildPanic

\* BlobGeno::default(), and a builder that has built nothing
InitTerm ==
    /\ nodes = QuadTree_new(GENO_MAX_DEPTH)
    /\ occupied_region = <<>>
    /\ gstack = <<>>
    /\ gpc = "start"
    /\ spawned = 0
    /\ valid = None
    /\ InitAssembler
    /\ InitIdleBuild

NextTerm ==
    \/ NewRandCall
    \/ GenoGiven
    \/ NextGen
    \/ GivenBuildStart
    \/ GivenBuildPanic
    \/ BuildAttach
    \/ BuildReturn
    \/ BuildClean

\* the control flow of the steps that compute a value: whatever rand_nodes
\* returns, the loop of new_rand's build goes on to its next child
RandNodesReturns ==
    /\ gpc = "new_rand" /\ gstack # <<>> /\ GenTop.k \in 0 .. 3
    /\ gstack' = GenSetTop([GenTop EXCEPT !.k = GenTop.k + 1])

\* whatever is_valid answers, it answers
IsValidReturns ==
    /\ gpc = "returned"
    /\ gpc' = "checked"

\* build_node, at its next limb child, makes the recursive call
BuildNodeCall ==
    /\ bpc = "walking" /\ bstack # <<>>
    /\ BuildPending(nodes, BuildTop) # {}
    /\ LET p == Min(BuildPending(nodes, BuildTop))
       IN bstack' = [bstack EXCEPT ![Len(bstack)] = [BuildTop EXCEPT !.d = p]]
                       \o <<[index |-> children(BuildTop.index)[p], d |-> 0]>>

\* a function that has been entered executes its next statement: new_rand
\* and is_valid run to their end, and so does build once it is walking
SpecTerm ==
    /\ InitTerm
    /\ [][NextTerm]_vars
    /\ WF_gstack(RandNodesReturns)
    /\ WF_vars(ChooseParent \/ GenRecurse \/ GenReturn)
    /\ WF_gpc(IsValidReturns)
    /\ WF_bstack(BuildNodeCall)
    /\ WF_vars(BuildReturn \/ BuildClean)

----------------------------------------------------------------------------
(* Termination of the recursive functions                                  *)

\* every call on the stack was made by the call below it, on one of its
\* four children, and runs on a slot in range that holds a limb
CalledOnLimbChildren(stack) ==
    \A k \in 1 .. Len(stack) :
        /\ InRange(nodes, stack[k].index)
        /\ IsChild(nodes[stack[k].index])
        /\ k > 1 => /\ stack[k].index \in Range(children(stack[k - 1].index))
                    /\ stack[k].index > stack[k - 1].index

\* C25: new_rand, is_valid and the walk of build terminate whatever the tree
\* holds and whatever the random choices are: every recursive call of
\* new_rand and of build_node is on a child index, strictly larger than its
\* caller's, whose slot is in range and holds a limb, and again and again
\* none of the three functions is running: new_rand has returned or
\* panicked, is_valid has answered and the walk of build has ended.
C25_RecursionTerminates ==
    /\ [](CalledOnLimbChildren(gstack) /\ CalledOnLimbChildren(bstack))
    /\ []<>(gpc \notin {"new_rand", "returned"} /\ bpc # "walking")

\* new_rand has returned from a recursion two calls deep and is_valid has
\* answered on a tree with a limb at depth 2
C25_Witness ==
    /\ gpc = "checked" /\ is_some(valid)
    /\ gstack = <<>>
    /\ \E i \in 5 .. 16 : IsChild(nodes[i])


----------------------------------------------------------------------------
(* Properties of the indices the assembler stores                          *)

\* the links of a segment that are Some
StoredLinks(block) ==
    {unwrap(l) : l \in {m \in {block.top, block.bottom, block.left, block.right} :
                          is_some(m)}}

\* C26: after any sequence of assembler operations the cursor is None
\* exactly when blocks is empty, and the cursor and every Some link of every
\* segment is an index below blocks.len().
C26_IndicesInRange ==
    /\ is_none(current_pos) <=> blocks = <<>>
    /\ is_some(current_pos) => unwrap(current_pos) \in 0 .. Len(blocks) - 1
    /\ \A i \in DOMAIN blocks :
          \A l \in StoredLinks(blocks[i]) : l \in 0 .. Len(blocks) - 1

\* three segments linked in a chain, the cursor on the last one
C26_Witness ==
    /\ Len(blocks) = 3
    /\ current_pos = Some(2)
    /\ last.op = "add_to_bottom"
    /\ StoredLinks(blocks[3]) # {} /\ StoredLinks(blocks[2]) # {}


\* C27: QuadTree::depth agrees with the tree structure: depth(0) = 0, the
\* depth of any other index is one more than the depth of its parent, and
\* the four children of one node have the same depth.
C27_DepthFollowsParent ==
    tlast.op = "depth" =>
        LET i == tlast.index IN
        /\ i = 0 => tlast.ret = 0
        /\ i > 0 => tlast.ret = depth(unwrap(parent(i))) + 1
        /\ \A c \in Range(children(i)) : depth(c) = depth(children(i)[1])


\* trees deeper than the program's, for the arithmetic of branch_nodes
MaxDepthChecked == 4

\* C28: for max_depth >= 1 and any tree contents, every index branch_nodes
\* returns is a slot that is not Empty and whose four child indices are all
\* below nodes.len(); the depth test alone keeps the children of a returned
\* index in range for the deeper trees as well.
C28_BranchNodesHaveChildSlots ==
    (tlast.op = "branch_nodes" /\ ~tlast.panic /\ max_depth >= 1) =>
        /\ \A i \in Range(tlast.ret) :
              /\ InRange(TreePre, i) /\ is_some(TreePre[i])
              /\ \A k \in 1 .. 4 : children(i)[k] < len(TreePre)
        /\ \A md \in 1 .. MaxDepthChecked :
              \A i \in 0 .. QuadTree_capacity(md) - 1 :
                  DepthBelowLast(i, md) => children(i)[4] < QuadTree_capacity(md)

\* node 3 is returned: its last child is the last slot of the tree
C28_Witness ==
    /\ max_depth = 2
    /\ tlast.op = "branch_nodes" /\ ~tlast.panic
    /\ 3 \in Range(tlast.ret)
    /\ children(3)[4] = len(TreePre) - 1


----------------------------------------------------------------------------
(* Properties of generation followed by building                           *)

\* the origin the genotype was built at: the first block's translation
BuiltAt == blocks[1].translation

\* o plus c, as a sum of reals or as the f32 sum
SumOf(o, c) == {o + c, FAdd(o, c)}

\* C29: when the genotype new_rand returned has been built at origin o, the
\* segment of every limb chained to the root has the translation o plus the
\* center new_rand stored for the limb.
C29_SegmentsAtStoredCenters ==
    (gpc = "checked" /\ Walked) =>
        \A i \in ChainedLimbs :
            LET s == SegmentOf(i)
                c == unwrap(nodes[i]).center
            IN /\ is_some(s) /\ unwrap(s) < Len(blocks)
               /\ \A k \in 1 .. 2 :
                     blocks[unwrap(s) + 1].translation[k] \in SumOf(BuiltAt[k], c[k])


\* the f32 roundings of the two chains of sums that lead to a translation
\* and to a stored center
RoundingSlack(o, c) == 4 * Quantum(Abs(o) + Abs(c))

\* C29 (amended): when the genotype new_rand returned has been built at
\* origin o, every limb chained to the root has a segment of its own; built
\* at the origin (0, 0) its translation is exactly the stored center, and
\* built anywhere else it is o plus the stored center up to the rounding of
\* the f32 sums.
C29_SegmentsNearStoredCenters ==
    (gpc = "checked" /\ Walked) =>
        /\ Len(blocks) = Cardinality(ChainedLimbs)
        /\ \A i \in ChainedLimbs :
              LET s == SegmentOf(i)
                  c == unwrap(nodes[i]).center
              IN /\ is_some(s) /\ unwrap(s) < Len(blocks)
                 /\ \A k \in 1 .. 2 :
                       LET t == blocks[unwrap(s) + 1].translation[k]
                       IN /\ BuiltAt = <<0, 0>> => t = c[k]
                          /\ Abs(t - (BuiltAt[k] + c[k]))
                                <= RoundingSlack(BuiltAt[k], c[k])

\* a genotype with a limb at depth 2 has been built away from (0, 0), and
\* the translation of one segment is not o plus the stored center
C29_Witness ==
    /\ gpc = "checked" /\ Walked
    /\ BuiltAt # <<0, 0>>
    /\ Len(blocks) >= 3
    /\ \E i \in ChainedLimbs \cap (5 .. 16) : is_some(SegmentOf(i))
    /\ \E i \in ChainedLimbs :
          blocks[unwrap(SegmentOf(i)) + 1].translation[1]
             \notin SumOf(BuiltAt[1], unwrap(nodes[i]).center[1])

====
